---- MODULE Spec2Model ----
(***************************************************************************)
(* Model of EditorInterface (src/utils/editor/slate.ts): the path-addressed *)
(* document tree, the idea children, the cursor and the list operations.    *)
(*                                                                          *)
(* The document is the editor node and its descendants.  Every node is a    *)
(* record [id, type, attrs, text, children]; `id` stands for the identity   *)
(* of the JavaScript object, `attrs` for the names of the fields a node     *)
(* carries besides type/children/text.  Paths are 0-based as in the code,   *)
(* so the child addressed by path segment s is children[s + 1].             *)
(*                                                                          *)
(* The calls into slate / slate-react (Editor.node, ReactEditor.findPath,   *)
(* Transforms.insertNodes / removeNodes / wrapNodes / select / collapse)    *)
(* are modelled by their operation semantics: nodes are immutable values,   *)
(* an edit produces a new tree, and the selection is carried through every  *)
(* edit.  Editor normalisation passes are not part of the model.            *)
(***************************************************************************)
EXTENDS Integers, Sequences, FiniteSets, TLC

VARIABLES editor, selection, last, calls

vars == <<editor, selection, last, calls>>

\* ---------------------------------------------------------------- bounds
\* Most ideas passed to one addIdeasToNode call.
MaxIdeas == 2
\* Most editing calls made on one document.
MaxCalls == 2

\* ------------------------------------------------------- element types
Paragraph == "paragraph"
Heading == "heading"
ListOrdered == "list-ordered"
ListOrderedItem == "list-ordered-item"
ListUnordered == "list-unordered"
ListUnorderedItem == "list-unordered-item"
Blockquote == "blockquote"
Codeblock == "codeblock"
Image == "image"
Idea == "idea"

\* Type tags of the two kinds of node that are not a CustomElement.
TextLeaf == "text"
EditorRoot == "editor"

ElementType ==
    {Paragraph, Heading, ListOrdered, ListOrderedItem, ListUnordered,
     ListUnorderedItem, Blockquote, Codeblock, Image, Idea}

\* ------------------------------------------------------------ builders
FormattedText(id, s) ==
    [id |-> id, type |-> TextLeaf, attrs |-> {}, text |-> s, children |-> <<>>]

CustomElement(id, t, a, ch) ==
    [id |-> id, type |-> t, attrs |-> a, text |-> <<>>, children |-> ch]

EditorNode(ch) ==
    [id |-> 0, type |-> EditorRoot, attrs |-> {}, text |-> <<>>, children |-> ch]

\* generateNewNode: for a list type a container with one item holding one
\* text leaf, for any other type one node holding one text leaf; the ideas
\* collection is stamped on the result and the options are merged last.
\* The new objects take the identities id, id + 1, ...
generateNewNode(id, t, content, options) ==
    IF t = ListOrdered \/ t = ListUnordered
    THEN CustomElement(id, t, {"ideas"} \cup options,
            <<CustomElement(id + 1,
                            IF t = ListOrdered THEN ListOrderedItem
                                               ELSE ListUnorderedItem,
                            {}, <<FormattedText(id + 2, content)>>)>>)
    ELSE CustomElement(id, t, {"ideas"} \cup options,
                       <<FormattedText(id + 1, content)>>)

\* ---------------------------------------------------- sequence helpers
Last(s) == s[Len(s)]

Most(s) == SubSeq(s, 1, Len(s) - 1)

InsertAt(s, i, x) == SubSeq(s, 1, i) \o <<x>> \o SubSeq(s, i + 1, Len(s))

RemoveAt(s, i) == SubSeq(s, 1, i) \o SubSeq(s, i + 2, Len(s))

IsPrefix(p, q) == Len(p) <= Len(q) /\ SubSeq(q, 1, Len(p)) = p

\* ------------------------------------------------------ node addressing
RECURSIVE HasNode(_, _)
HasNode(n, path) ==
    IF path = <<>> THEN TRUE
    ELSE /\ n.type # TextLeaf
         /\ Head(path) >= 0
         /\ Head(path) < Len(n.children)
         /\ HasNode(n.children[Head(path) + 1], Tail(path))

\* Editor.node(editorState, path)[0]
RECURSIVE getNode(_, _)
getNode(n, path) ==
    IF path = <<>> THEN n
    ELSE getNode(n.children[Head(path) + 1], Tail(path))

RECURSIVE PathsOf(_)
PathsOf(n) ==
    {<<>>} \cup UNION {{<<i - 1>> \o p : p \in PathsOf(n.children[i])} :
                        i \in 1..Len(n.children)}

\* ReactEditor.findPath(editorState, node): the path of a node instance.
findPath(root, id) ==
    CHOOSE p \in PathsOf(root) : getNode(root, p).id = id

RECURSIVE IdsOf(_)
IdsOf(n) == {n.id} \cup UNION {IdsOf(n.children[i]) : i \in 1..Len(n.children)}

\* The tree with the children of the node at path replaced.
RECURSIVE WithChildren(_, _, _)
WithChildren(n, path, ch) ==
    IF path = <<>> THEN [n EXCEPT !.children = ch]
    ELSE [n EXCEPT !.children[Head(path) + 1] =
              WithChildren(n.children[Head(path) + 1], Tail(path), ch)]

\* ------------------------------------------------------------ selection
\* editorState.selection: null, or an anchor point (path, offset).
NoSelection == [active |-> FALSE, path |-> <<>>, offset |-> 0]

Point(path, offset) == [active |-> TRUE, path |-> path, offset |-> offset]

\* Paths of the text leaves in document order (Node.texts).
RECURSIVE TextsOf(_, _)
RECURSIVE TextsOfSeq(_, _, _)
TextsOf(n, path) ==
    IF n.type = TextLeaf THEN <<path>> ELSE TextsOfSeq(n.children, path, 1)
TextsOfSeq(ch, path, i) ==
    IF i > Len(ch) THEN <<>>
    ELSE TextsOf(ch[i], path \o <<i - 1>>) \o TextsOfSeq(ch, path, i + 1)

\* Path.compare: -1 before, 1 after, 0 when one contains the other.
RECURSIVE PathCompare(_, _)
PathCompare(p, q) ==
    IF p = <<>> \/ q = <<>> THEN 0
    ELSE IF Head(p) < Head(q) THEN -1
    ELSE IF Head(p) > Head(q) THEN 1
    ELSE PathCompare(Tail(p), Tail(q))

\* Length of Path.common.
RECURSIVE CommonLen(_, _)
CommonLen(p, q) ==
    IF p = <<>> \/ q = <<>> \/ Head(p) # Head(q) THEN 0
    ELSE 1 + CommonLen(Tail(p), Tail(q))

\* The point carried through an insert_node operation at path `at`.
InsertedPoint(sel, at) ==
    LET n == Len(at) IN
    IF /\ sel.active
       /\ Len(sel.path) >= n
       /\ SubSeq(sel.path, 1, n - 1) = Most(at)
       /\ Last(at) <= sel.path[n]
    THEN [sel EXCEPT !.path[n] = @ + 1]
    ELSE sel

\* The point carried through a remove_node operation at path `at`; `root`
\* is the tree after the removal.  A point inside the removed node moves to
\* the end of the previous text leaf or the start of the next one.
RemovedPoint(root, sel, at) ==
    LET n == Len(at)
        texts == TextsOf(root, <<>>)
        before == {i \in 1..Len(texts) : PathCompare(texts[i], at) = -1}
        firstRest == CHOOSE i \in 1..(Len(texts) + 1) :
                        /\ \A j \in 1..(i - 1) : j \in before
                        /\ i <= Len(texts) => i \notin before
        hasPrev == firstRest > 1
        hasNext == firstRest <= Len(texts)
        prev == texts[firstRest - 1]
        next == texts[firstRest]
        preferNext ==
            /\ hasPrev
            /\ hasNext
            /\ IF next = at THEN Last(next) = 0
               ELSE CommonLen(prev, at) < CommonLen(next, at)
    IN
    IF ~sel.active THEN sel
    ELSE IF IsPrefix(at, sel.path) THEN
        IF hasPrev /\ ~preferNext
            THEN Point(prev, Len(getNode(root, prev).text))
        ELSE IF hasNext THEN Point(next, 0)
        ELSE NoSelection
    ELSE IF /\ Len(sel.path) >= n
            /\ SubSeq(sel.path, 1, n - 1) = Most(at)
            /\ Last(at) < sel.path[n]
        THEN [sel EXCEPT !.path[n] = @ - 1]
    ELSE sel

\* The point carried through wrapping the node at path `at`.
WrappedPoint(sel, at) ==
    IF sel.active /\ IsPrefix(at, sel.path)
    THEN [sel EXCEPT !.path = at \o <<0>> \o SubSeq(sel.path, Len(at) + 1, Len(sel.path))]
    ELSE sel

\* An editor state: the tree and the selection.
State(root, sel) == [editor |-> root, selection |-> sel]

\* --------------------------------------------------- mutation primitives
\* insertNode: Transforms.insertNodes(editorState, node, {at: path}).
insertNode(st, node, path) ==
    LET parent == Most(path)
        ch == getNode(st.editor, parent).children
    IN State(WithChildren(st.editor, parent, InsertAt(ch, Last(path), node)),
             InsertedPoint(st.selection, path))

\* deleteNode: Transforms.removeNodes(editorState, {at: path}).
deleteNode(st, path) ==
    LET parent == Most(path)
        ch == getNode(st.editor, parent).children
        root == WithChildren(st.editor, parent, RemoveAt(ch, Last(path)))
    IN State(root, RemovedPoint(root, st.selection, path))

\* wrapNodes inserting the wrapper with a copy of the node, the node kept.
wrapNodes_KeepsNode(st, id, type, path) ==
    LET parent == Most(path)
        ch == getNode(st.editor, parent).children
        wrapper == CustomElement(id, type, {}, <<ch[Last(path) + 1]>>)
    IN State(WithChildren(st.editor, parent, InsertAt(ch, Last(path), wrapper)),
             InsertedPoint(st.selection, path))

\* Transforms.wrapNodes(editorState, {type, children: []}, {at: path}): the
\* wrapper takes the place of the node and the node becomes its only child.
wrapNodes(st, id, type, path) ==
    LET parent == Most(path)
        ch == getNode(st.editor, parent).children
        wrapper == CustomElement(id, type, {}, <<ch[Last(path) + 1]>>)
    IN State(WithChildren(st.editor, parent,
                          [ch EXCEPT ![Last(path) + 1] = wrapper]),
             WrappedPoint(st.selection, path))

\* ------------------------------------------------- outcomes of a call
Return(v) == [threw |-> FALSE, value |-> v]

Throw == [threw |-> TRUE, value |-> <<>>]

Null == "null"

\* ---------------------------------------------------- type classification
\* getNodeType(node): null unless Element.isElement(node).
getNodeType(node) == IF node.type \in ElementType THEN node.type ELSE Null

isIdeaElement(element) == element.type = Idea

\* isNodeAList(editorState, path)
isNodeAList(root, path) ==
    IF ~HasNode(root, path) THEN Throw
    ELSE IF getNodeType(getNode(root, path)) = ListOrdered THEN Return(TRUE)
    ELSE IF getNodeType(getNode(root, path)) = ListUnordered THEN Return(TRUE)
    ELSE Return(FALSE)

\* isNodeAListItem comparing against the container types.
isNodeAListItem_Containers(root, path) ==
    IF ~HasNode(root, path) THEN Throw
    ELSE IF getNodeType(getNode(root, path)) = ListOrdered THEN Return(TRUE)
    ELSE IF getNodeType(getNode(root, path)) = ListUnordered THEN Return(TRUE)
    ELSE Return(FALSE)

\* isNodeAListItem(editorState, path)
isNodeAListItem(root, path) ==
    IF ~HasNode(root, path) THEN Throw
    ELSE IF getNodeType(getNode(root, path)) = ListOrderedItem THEN Return(TRUE)
    ELSE IF getNodeType(getNode(root, path)) = ListUnorderedItem THEN Return(TRUE)
    ELSE Return(FALSE)

\* ------------------------------------------------------------- content
\* getNodeChildren: [] for an image, node.children otherwise (undefined for
\* a text leaf, which the callers cannot iterate).
getNodeChildren(root, path) ==
    LET node == getNode(root, path) IN
    IF node.type # Image THEN node.children ELSE <<>>

RECURSIVE getNodeContent(_, _)
RECURSIVE getNodeContentFrom(_, _, _, _, _)
getNodeContent(root, path) ==
    IF ~HasNode(root, path) THEN Throw
    ELSE IF getNode(root, path).type = TextLeaf THEN Throw
    ELSE getNodeContentFrom(root, path, getNodeChildren(root, path), 1, <<>>)
getNodeContentFrom(root, path, children, i, content) ==
    IF i > Len(children) THEN Return(content)
    ELSE IF children[i].type = TextLeaf
        THEN getNodeContentFrom(root, path, children, i + 1,
                                content \o children[i].text)
    ELSE LET sub == getNodeContent(root, path \o <<0>>) IN
         IF sub.threw THEN Throw
         ELSE getNodeContentFrom(root, path, children, i + 1,
                                 content \o sub.value)

\* ---------------------------------------------------------------- ideas
\* The length node.children.length reads through the reference taken before
\* the loop: a node of the tree is an immutable value, so the reference keeps
\* the children it had; the editor object itself is updated in place.
ChildrenLength(st, node) ==
    IF node.type = EditorRoot THEN Len(st.editor.children)
    ELSE Len(node.children)

RECURSIVE addIdeasFrom(_, _, _, _, _)
addIdeasFrom(st, path, node, ideas, i) ==
    IF i > Len(ideas) THEN st
    ELSE addIdeasFrom(
            insertNode(st, ideas[i], path \o <<ChildrenLength(st, node)>>),
            path, node, ideas, i + 1)

\* addIdeasToNode declining image targets only.
addIdeasToNode_ImageOnly(st, path, ideas) ==
    IF ~HasNode(st.editor, path) THEN [threw |-> TRUE, state |-> st]
    ELSE LET node == getNode(st.editor, path) IN
         IF node.type = Image THEN [threw |-> FALSE, state |-> st]
         ELSE IF ideas = <<>> THEN [threw |-> FALSE, state |-> st]
         ELSE IF node.type = TextLeaf THEN [threw |-> TRUE, state |-> st]
         ELSE [threw |-> FALSE, state |-> addIdeasFrom(st, path, node, ideas, 1)]

addIdeasToNode(st, path, ideas) ==
    IF ~HasNode(st.editor, path) THEN [threw |-> TRUE, state |-> st]
    ELSE LET node == getNode(st.editor, path) IN
         IF node.type \in {Image, ListOrderedItem, ListUnorderedItem}
             THEN [threw |-> FALSE, state |-> st]
         ELSE IF ideas = <<>> THEN [threw |-> FALSE, state |-> st]
         ELSE IF node.type = TextLeaf THEN [threw |-> TRUE, state |-> st]
         ELSE [threw |-> FALSE, state |-> addIdeasFrom(st, path, node, ideas, 1)]

\* getIdeas without the idea filter.
getIdeas_NoFilter(root, path) ==
    IF ~HasNode(root, path) THEN Throw
    ELSE LET node == getNode(root, path) IN
         IF node.type = Image THEN Return(<<>>)
         ELSE IF node.type = TextLeaf THEN Throw
         ELSE Return(node.children)

getIdeas(root, path) ==
    IF ~HasNode(root, path) THEN Throw
    ELSE LET node == getNode(root, path) IN
         IF node.type = Image THEN Return(<<>>)
         ELSE IF node.type = TextLeaf THEN Throw
         ELSE Return(SelectSeq(node.children, isIdeaElement))

RECURSIVE clearIdeasFrom(_, _, _)
clearIdeasFrom(st, ideas, i) ==
    IF i > Len(ideas) THEN st
    ELSE clearIdeasFrom(deleteNode(st, findPath(st.editor, ideas[i].id)),
                        ideas, i + 1)

\* clearIdeas deleting by the paths the ideas had before the first removal.
RECURSIVE deleteAtPaths(_, _, _)
deleteAtPaths(st, paths, i) ==
    IF i > Len(paths) THEN st
    ELSE deleteAtPaths(IF HasNode(st.editor, paths[i])
                           THEN deleteNode(st, paths[i]) ELSE st,
                       paths, i + 1)

clearIdeas_StalePaths(st, path) ==
    LET ideas == getIdeas(st.editor, path) IN
    IF ideas.threw THEN [threw |-> TRUE, state |-> st]
    ELSE [threw |-> FALSE,
          state |-> deleteAtPaths(st,
                        [i \in 1..Len(ideas.value) |->
                            findPath(st.editor, ideas.value[i].id)], 1)]

clearIdeas(st, path) ==
    LET ideas == getIdeas(st.editor, path) IN
    IF ideas.threw THEN [threw |-> TRUE, state |-> st]
    ELSE [threw |-> FALSE, state |-> clearIdeasFrom(st, ideas.value, 1)]

\* ----------------------------------------------------- cursor and lists
\* getSelectedRootNode: the index of the root child holding the anchor.
getSelectedRootNode(st) ==
    IF st.selection.active THEN [index |-> st.selection.path[1]]
    ELSE [index |-> -1]

getCursorPosition(st) ==
    IF st.selection.active
        THEN [index |-> st.selection.offset, path |-> st.selection.path]
    ELSE [index |-> -1, path |-> <<>>]

\* The value of cursorPath[1] when the path has no second segment.
Undefined == -2

getIndexOfCurrentListItem(st) ==
    LET rootNode == getSelectedRootNode(st)
        isList == isNodeAList(st.editor, <<rootNode.index>>)
    IN
    IF isList.threw THEN Throw
    ELSE IF isList.value THEN
        LET cursorPath == getCursorPosition(st).path IN
        Return(IF Len(cursorPath) >= 2 THEN cursorPath[2] ELSE Undefined)
    ELSE Return(-1)

\* Path of the last leaf under the node at path (Editor.end).
RECURSIVE LastLeaf(_, _)
LastLeaf(n, path) ==
    IF n.children = <<>> THEN path
    ELSE LastLeaf(n.children[Len(n.children)], path \o <<Len(n.children) - 1>>)

\* setCursor: select the node at path, collapse to its end.
setCursor(st, path) ==
    LET leaf == path \o LastLeaf(getNode(st.editor, path), <<>>) IN
    IF ~HasNode(st.editor, path) THEN [threw |-> TRUE, state |-> st]
    ELSE IF getNode(st.editor, leaf).type # TextLeaf
        THEN [threw |-> TRUE, state |-> st]
    ELSE [threw |-> FALSE,
          state |-> State(st.editor,
                          Point(leaf, Len(getNode(st.editor, leaf).text)))]

\* Identity of the next object created: one no node of the tree has.
NextId(root) == 1 + (CHOOSE i \in IdsOf(root) : \A j \in IdsOf(root) : j <= i)

insertListWrapper(st, node, type) ==
    LET isItem == isNodeAListItem(st.editor, node) IN
    IF isItem.threw THEN [threw |-> TRUE, state |-> st]
    ELSE IF ~isItem.value THEN [threw |-> FALSE, state |-> st]
    ELSE [threw |-> FALSE,
          state |-> wrapNodes(st, NextId(st.editor), type, node)]

\* ------------------------------------------------------------ documents
\* Texts typed into the document and the text of the i-th generated idea.
ContentA == <<"a">>
ContentB == <<"b">>
IdeaText(i) == IF i % 2 = 1 THEN <<"x">> ELSE <<"y">>

\* The i-th idea node handed to addIdeasToNode, generated with its prompt.
NewIdea(root, i) ==
    generateNewNode(NextId(root) + 2 * (i - 1), Idea, IdeaText(i),
                    {"promptName"})

DocLists ==
    EditorNode(<<
        CustomElement(1, ListOrdered, {"ideas"}, <<
            CustomElement(2, ListOrderedItem, {}, <<FormattedText(3, ContentA)>>),
            CustomElement(4, ListOrderedItem, {}, <<FormattedText(5, ContentB)>>)>>),
        CustomElement(6, Image, {"ideas", "url", "alt"},
                      <<FormattedText(7, <<>>)>>)>>)

DocIdeas ==
    EditorNode(<<
        CustomElement(1, Heading, {"ideas", "level"}, <<
            FormattedText(2, ContentA),
            generateNewNode(3, Idea, <<"x">>, {"promptName"}),
            FormattedText(5, ContentB)>>),
        generateNewNode(6, ListUnordered, ContentB, {})>>)

DocMixed ==
    EditorNode(<<
        CustomElement(1, Codeblock, {"ideas"}, <<
            generateNewNode(2, Idea, <<"x">>, {"promptName"}),
            FormattedText(4, ContentA),
            generateNewNode(5, Idea, <<"y">>, {"promptName"})>>),
        generateNewNode(7, Paragraph, ContentB, {})>>)

DocPlain ==
    EditorNode(<<
        generateNewNode(1, Blockquote, ContentA, {}),
        generateNewNode(3, Paragraph, ContentB, {})>>)

Documents == {DocLists, DocIdeas, DocMixed, DocPlain}

\* ---------------------------------------------------------------- state
Here == State(editor, selection)

Call(op, path, ideas, type, threw, value) ==
    [op |-> op, path |-> path, ideas |-> ideas, type |-> type,
     pre |-> Here, threw |-> threw, value |-> value]

Init ==
    /\ editor \in Documents
    /\ selection = NoSelection
    /\ calls = 0
    /\ last = [op |-> "none", path |-> <<>>, ideas |-> <<>>, type |-> Null,
               pre |-> State(editor, NoSelection), threw |-> FALSE,
               value |-> <<>>]

\* -------------------------------------------------------------- actions
AddIdeasToNode ==
    \E path \in PathsOf(editor), n \in 0..MaxIdeas :
        LET ideas == [i \in 1..n |-> NewIdea(editor, i)]
            r == addIdeasToNode(Here, path, ideas)
        IN /\ calls < MaxCalls
           /\ calls' = calls + 1
           /\ editor' = r.state.editor
           /\ selection' = r.state.selection
           /\ last' = Call("addIdeasToNode", path, ideas, Null, r.threw, <<>>)

ClearIdeas ==
    \E path \in PathsOf(editor) :
        LET r == clearIdeas(Here, path)
        IN /\ calls < MaxCalls
           /\ calls' = calls + 1
           /\ editor' = r.state.editor
           /\ selection' = r.state.selection
           /\ last' = Call("clearIdeas", path, <<>>, Null, r.threw, <<>>)

InsertListWrapper ==
    \E path \in PathsOf(editor), type \in {ListOrdered, ListUnordered} :
        LET r == insertListWrapper(Here, path, type)
        IN /\ calls < MaxCalls
           /\ calls' = calls + 1
           /\ editor' = r.state.editor
           /\ selection' = r.state.selection
           /\ last' = Call("insertListWrapper", path, <<>>, type, r.threw, <<>>)

SetCursor ==
    \E path \in PathsOf(editor) :
        LET r == setCursor(Here, path)
        IN /\ calls < MaxCalls
           /\ calls' = calls + 1
           /\ editor' = r.state.editor
           /\ selection' = r.state.selection
           /\ last' = Call("setCursor", path, <<>>, Null, r.threw, <<>>)

GetIdeas ==
    \E path \in PathsOf(editor) :
        LET r == getIdeas(editor, path)
        IN /\ last' = Call("getIdeas", path, <<>>, Null, r.threw, r.value)
           /\ UNCHANGED <<editor, selection, calls>>

GetNodeContent ==
    \E path \in PathsOf(editor) :
        LET r == getNodeContent(editor, path)
        IN /\ last' = Call("getNodeContent", path, <<>>, Null, r.threw, r.value)
           /\ UNCHANGED <<editor, selection, calls>>

GetIndexOfCurrentListItem ==
    LET r == getIndexOfCurrentListItem(Here)
    IN /\ last' = Call("getIndexOfCurrentListItem", <<>>, <<>>, Null,
                       r.threw, r.value)
       /\ UNCHANGED <<editor, selection, calls>>

\* The editing calls.
Next ==
    \/ AddIdeasToNode
    \/ ClearIdeas
    \/ InsertListWrapper
    \/ SetCursor

Spec == Init /\ [][Next]_vars

\* The queries, on a document whose cursor moves.
NextQuery ==
    \/ SetCursor
    \/ GetIdeas
    \/ GetNodeContent
    \/ GetIndexOfCurrentListItem

SpecQuery == Init /\ [][NextQuery]_vars

\* =============================================================== claims
ListItemTypes == {ListOrderedItem, ListUnorderedItem}

ListTypes == {ListOrdered, ListUnordered}

\* The node a call was made on, in the tree the call started from.
Target == getNode(last.pre.editor, last.path)

Edited(op) == last.op = op /\ HasNode(last.pre.editor, last.path)

\* Text of all leaf descendants of a node, in document order.
RECURSIVE LeafText(_)
RECURSIVE LeafTextSeq(_)
LeafText(n) == IF n.type = TextLeaf THEN n.text ELSE LeafTextSeq(n.children)
LeafTextSeq(ch) ==
    IF ch = <<>> THEN <<>> ELSE LeafText(Head(ch)) \o LeafTextSeq(Tail(ch))

\* Text of the children that are text leaves, in order.
RECURSIVE OwnText(_)
OwnText(ch) ==
    IF ch = <<>> THEN <<>>
    ELSE (IF Head(ch).type = TextLeaf THEN Head(ch).text ELSE <<>>)
         \o OwnText(Tail(ch))

RECURSIVE HasIdeaBelow(_)
HasIdeaBelow(n) ==
    \E i \in 1..Len(n.children) :
        n.children[i].type = Idea \/ HasIdeaBelow(n.children[i])

IsNotIdea(n) == n.type # Idea

\* C1: addIdeasToNode on a node that is neither an image nor a list item,
\* with N >= 1 ideas, keeps the existing children in place and appends the
\* ideas after them in the given order; getIdeas then lists the new ideas
\* in that order after the ideas the node already had.
C1_IdeasAppendedInOrder ==
    (/\ Edited("addIdeasToNode")
     /\ Target.type \notin {Image, TextLeaf} \cup ListItemTypes
     /\ Len(last.ideas) >= 1)
    => /\ ~last.threw
       /\ getNode(editor, last.path).children = Target.children \o last.ideas
       /\ getIdeas(editor, last.path) =
              Return(getIdeas(last.pre.editor, last.path).value \o last.ideas)

\* C2: addIdeasToNode on an image or a list item does not raise and changes
\* nothing, whatever the ideas; and no list item ever has an idea child.
C2_DeclinedTargetsUnchanged ==
    /\ (Edited("addIdeasToNode") /\ Target.type \in {Image} \cup ListItemTypes)
       => /\ ~last.threw
          /\ editor = last.pre.editor
          /\ selection = last.pre.selection
    /\ \A p \in PathsOf(editor) :
          getNode(editor, p).type \in ListItemTypes
          => \A i \in 1..Len(getNode(editor, p).children) :
                getNode(editor, p).children[i].type # Idea

C2_Witness ==
    /\ Edited("addIdeasToNode")
    /\ Target.type \in ListItemTypes
    /\ Len(last.ideas) = 2
    /\ last.pre.editor \notin Documents

\* C3: after clearIdeas on a node, getIdeas on it returns the empty
\* sequence and a second clearIdeas changes nothing.
C3_ClearIdeasIdempotent ==
    (Edited("clearIdeas") /\ Target.type # TextLeaf)
    => /\ ~last.threw
       /\ getIdeas(editor, last.path) = Return(<<>>)
       /\ clearIdeas(Here, last.path) = [threw |-> FALSE, state |-> Here]

C3_Witness ==
    /\ Edited("clearIdeas")
    /\ Target.type \notin {TextLeaf, Image}
    /\ Len(SelectSeq(Target.children, isIdeaElement)) >= 3
    /\ Target.children[1].type = Idea
    /\ Target.children[2].type = TextLeaf

\* C4: getNodeContent on a node whose children mix text leaves and idea
\* nodes returns the text of the text leaves in order, nothing of the ideas.
C4_ContentSkipsIdeas ==
    (/\ Edited("getNodeContent")
     /\ Target.type \notin {TextLeaf, Image}
     /\ \A i \in 1..Len(Target.children) :
            Target.children[i].type \in {TextLeaf, Idea}
     /\ \E i \in 1..Len(Target.children) : Target.children[i].type = TextLeaf
     /\ \E i \in 1..Len(Target.children) : Target.children[i].type = Idea)
    => /\ ~last.threw
       /\ last.value = OwnText(Target.children)

\* C5: getIndexOfCurrentListItem returns the second segment of the anchor
\* path when the root child holding the anchor is a list container, and -1
\* in every other state, the state without a selection included.
C5_IndexOfCurrentListItem ==
    last.op = "getIndexOfCurrentListItem"
    => /\ ~last.threw
       /\ last.value =
            IF /\ selection.active
               /\ getNode(editor, <<selection.path[1]>>).type \in ListTypes
            THEN selection.path[2]
            ELSE -1

\* C6: insertListWrapper on a node that is not a list item does not raise
\* and changes nothing.
C6_WrapperDeclined ==
    (Edited("insertListWrapper") /\ Target.type \notin ListItemTypes)
    => /\ ~last.threw
       /\ editor = last.pre.editor
       /\ selection = last.pre.selection

C6_Witness ==
    /\ Edited("insertListWrapper")
    /\ Target.type \in ListTypes
    /\ last.type = ListUnordered

\* C7: every list container has only list items and ideas as children.
C7_ListsHoldItemsAndIdeas ==
    \A p \in PathsOf(editor) :
        getNode(editor, p).type \in ListTypes
        => \A i \in 1..Len(getNode(editor, p).children) :
              getNode(editor, p).children[i].type \in ListItemTypes \cup {Idea}

\* C8: insertListWrapper on a list item puts a new container of the given
\* type, with no other attribute, at the item's path; the item, unchanged,
\* is its only child; the siblings are the same, in the same order.
C8_WrapperReplacesItem ==
    (Edited("insertListWrapper") /\ Target.type \in ListItemTypes)
    => LET wrapper == getNode(editor, last.path)
           parent == Most(last.path)
           before == getNode(last.pre.editor, parent).children
           after == getNode(editor, parent).children
       IN /\ ~last.threw
          /\ wrapper.type = last.type
          /\ wrapper.attrs = {}
          /\ wrapper.id \notin IdsOf(last.pre.editor)
          /\ wrapper.children = <<Target>>
          /\ getNode(editor, last.path \o <<0>>) = Target
          /\ Len(after) = Len(before)
          /\ \A i \in 1..Len(before) :
                i # Last(last.path) + 1 => after[i] = before[i]
          /\ editor = WithChildren(last.pre.editor, parent,
                          [before EXCEPT ![Last(last.path) + 1] = wrapper])

C8_Witness ==
    /\ Edited("insertListWrapper")
    /\ Target.type = ListOrderedItem
    /\ last.type = ListUnordered
    /\ Len(getNode(last.pre.editor, Most(last.path)).children) >= 2
    /\ getNode(editor, last.path).type = ListUnordered

\* C9: getNodeContent on a node without idea descendants returns the text
\* of all its leaf descendants in document order, without separators.
C9_ContentOfAllLeaves ==
    (/\ Edited("getNodeContent")
     /\ Target.type # TextLeaf
     /\ ~HasIdeaBelow(Target))
    => /\ ~last.threw
       /\ last.value = LeafText(Target)

\* C10: clearIdeas removes the idea children of the node and nothing else:
\* the other children stay, in order and unchanged, and so does every node
\* outside the node's children.
C10_ClearIdeasRemovesOnlyIdeas ==
    (Edited("clearIdeas") /\ Target.type # TextLeaf)
    => /\ ~last.threw
       /\ editor = WithChildren(last.pre.editor, last.path,
                                SelectSeq(Target.children, IsNotIdea))

C10_Witness ==
    /\ Edited("clearIdeas")
    /\ Target.type = Heading
    /\ Len(SelectSeq(Target.children, isIdeaElement)) >= 2
    /\ Len(SelectSeq(Target.children, IsNotIdea)) >= 2
    /\ Len(getNode(editor, last.path).children) = 2

====
